---- MODULE Spec2Model ----
(***************************************************************************)
(* aws_auth_utils/aws_auth.py: the mfa and assume commands, the profile    *)
(* resolver, the MFA device auto-detector and the credentials-file codec.  *)
(*                                                                         *)
(* The credentials file is a sequence of sections, each a name and a       *)
(* mapping of option name to value, as written in the file.  A value is a  *)
(* sequence of atoms: the atom "%" is one percent character, every other   *)
(* atom is a run of characters holding no percent sign.  The shared        *)
(* config file (~/.aws/config) is taken to define no profile.              *)
(***************************************************************************)
EXTENDS Integers, Sequences, FiniteSets, TLC

\* file: the credentials file.  pc, args, mfa_arn, session, aws_creds,
\* session_token, exit_code: each process's position, command line and locals.
\* issued: the provider's count of credentials issued.  runs: invocations restarted.
\* hist, snap, order: history only (each invocation's events, the file as it was
\* at three points, the processes in the order of their saves).
VARIABLES file, pc, args, mfa_arn, session, aws_creds, session_token,
          exit_code, issued, runs, hist, snap, order

vars == <<file, pc, args, mfa_arn, session, aws_creds, session_token,
          exit_code, issued, runs, hist, snap, order>>

\* ------------------------------------------------------------------ bounds
MaxSections == 2
MaxDevices == 2
MaxRuns == 2

\* --------------------------------------------------------------- constants
Procs == {1, 2}
None == "None"
DEFAULTSECT == "DEFAULT"
SectionNames == {DEFAULTSECT, "default", "mfa-source"}
ProfileArgs == SectionNames \cup {"work"}
Commands == {"mfa", "assume"}
GivenArn == "arn:given"

LongTermBody ==
  ("aws_access_key_id" :> <<"AKIA">>) @@ ("aws_secret_access_key" :> <<"longterm">>)
UpperBody == ("Region" :> <<"us">>)
EscapedBody == ("note" :> <<"50", "%", "%">>)
LonePercentBody == ("note" :> <<"50", "%">>)
Bodies == {LongTermBody, UpperBody, EscapedBody, LonePercentBody}

Section(n, kv) == [name |-> n, kv |-> kv]

FilesOfLen(n) ==
  { [i \in 1..n |-> Section(ns[i], bs[i])] :
      ns \in {f \in [1..n -> SectionNames] : \A i, j \in 1..n : i # j => f[i] # f[j]},
      bs \in [1..n -> Bodies] }

InitFiles == UNION {FilesOfLen(n) : n \in 0..MaxSections}

\* ------------------------------------------------------------ configparser
Ok(v) == [err |-> None, val |-> v]
Err(e) == [err |-> e, val |-> <<>>]

EmptyKv == [k \in {} |-> <<>>]

\* str.lower on the option names of the model
optionxform(k) == IF k = "Region" THEN "region" ELSE k

Names(secs) == {secs[i].name : i \in 1..Len(secs)}

IndexOf(secs, n) == CHOOSE i \in 1..Len(secs) : secs[i].name = n

\* BasicInterpolation.before_get: "%%" reads as "%", a lone "%" is a syntax error
RECURSIVE before_get(_)
before_get(v) ==
  IF v = <<>> THEN Ok(<<>>)
  ELSE IF Head(v) # "%"
    THEN LET r == before_get(Tail(v))
         IN  IF r.err = None THEN Ok(<<Head(v)>> \o r.val) ELSE r
  ELSE IF Len(v) >= 2 /\ v[2] = "%"
    THEN LET r == before_get(SubSeq(v, 3, Len(v)))
         IN  IF r.err = None THEN Ok(<<"%">> \o r.val) ELSE r
  ELSE Err("InterpolationSyntaxError")

\* value.replace('%%', '')
RECURSIVE StripEscaped(_)
StripEscaped(v) ==
  IF v = <<>> THEN <<>>
  ELSE IF Len(v) >= 2 /\ v[1] = "%" /\ v[2] = "%" THEN StripEscaped(SubSeq(v, 3, Len(v)))
  ELSE <<Head(v)>> \o StripEscaped(Tail(v))

\* BasicInterpolation.before_set: a "%" left after removing "%%" is refused
before_set_ok(v) == \A i \in 1..Len(StripEscaped(v)) : StripEscaped(v)[i] # "%"

DuplicateOption(kv) ==
  \E a, b \in DOMAIN kv : a # b /\ optionxform(a) = optionxform(b)

XformKv(kv) ==
  [k \in {optionxform(o) : o \in DOMAIN kv} |->
     kv[CHOOSE o \in DOMAIN kv : optionxform(o) = k]]

\* parser.read(path): the DEFAULT section becomes the parser's defaults
parser_read(f) ==
  IF \E i, j \in 1..Len(f) : i # j /\ f[i].name = f[j].name
    THEN Err("DuplicateSectionError")
  ELSE IF \E i \in 1..Len(f) : DuplicateOption(f[i].kv)
    THEN Err("DuplicateOptionError")
  ELSE Ok([defaults |-> IF DEFAULTSECT \in Names(f)
                          THEN XformKv(f[IndexOf(f, DEFAULTSECT)].kv)
                          ELSE EmptyKv,
           sections |-> LET s == SelectSeq(f, LAMBDA x : x.name # DEFAULTSECT)
                        IN  [i \in 1..Len(s) |-> Section(s[i].name, XformKv(s[i].kv))]])

\* parser.items(section) before interpolation: the defaults, overridden by the section
RawItems(p, kv) ==
  [k \in DOMAIN p.defaults \cup DOMAIN kv |->
     IF k \in DOMAIN kv THEN kv[k] ELSE p.defaults[k]]

ItemsOk(p, kv) == \A k \in DOMAIN RawItems(p, kv) : before_get(RawItems(p, kv)[k]).err = None

Items(p, kv) == [k \in DOMAIN RawItems(p, kv) |-> before_get(RawItems(p, kv)[k]).val]

read_ini_file_to_dict(f) ==
  LET r == parser_read(f) IN
  IF r.err # None THEN r
  ELSE IF \E i \in 1..Len(r.val.sections) : ~ItemsOk(r.val, r.val.sections[i].kv)
    THEN Err("InterpolationSyntaxError")
  ELSE Ok([i \in 1..Len(r.val.sections) |->
             Section(r.val.sections[i].name, Items(r.val, r.val.sections[i].kv))])

\* parser.read_dict(dict_) then parser.write(fout): DEFAULT first, when it has options
write_dict_to_ini_file(d) ==
  IF \E i \in 1..Len(d) : DuplicateOption(d[i].kv)
    THEN Err("DuplicateOptionError")
  ELSE IF \E i \in 1..Len(d) : \E k \in DOMAIN d[i].kv : ~before_set_ok(d[i].kv[k])
    THEN Err("ValueError")
  ELSE LET defaults == IF DEFAULTSECT \in Names(d)
                         THEN XformKv(d[IndexOf(d, DEFAULTSECT)].kv) ELSE EmptyKv
           s == SelectSeq(d, LAMBDA x : x.name # DEFAULTSECT)
       IN  Ok((IF DOMAIN defaults = {} THEN <<>> ELSE <<Section(DEFAULTSECT, defaults)>>)
              \o [i \in 1..Len(s) |-> Section(s[i].name, XformKv(s[i].kv))])

\* an update merged into the section's options instead of replacing the section
DictMerge(d, n, kv) ==
  IF n \in Names(d)
    THEN [i \in 1..Len(d) |-> IF d[i].name = n THEN Section(n, kv @@ d[i].kv) ELSE d[i]]
    ELSE Append(d, Section(n, kv))

\* dict[name] = kv: in place when the key exists, appended otherwise
DictSet(d, n, kv) ==
  IF n \in Names(d)
    THEN [i \in 1..Len(d) |-> IF d[i].name = n THEN Section(n, kv) ELSE d[i]]
    ELSE Append(d, Section(n, kv))

DictGet(d, n) == d[IndexOf(d, n)].kv

\* ------------------------------------------------------------- the provider
\* the temporary credential of the n-th successful request, as the three options saved
TemporaryCredential(n) ==
  [AccessKeyId |-> <<"ASIA", ToString(n)>>,
   SecretAccessKey |-> <<"secret", ToString(n)>>,
   SessionToken |-> <<"token", ToString(n)>>]

NoCredential == [AccessKeyId |-> <<>>, SecretAccessKey |-> <<>>, SessionToken |-> <<>>]

DeviceArns == {"arn:dev" \o ToString(i) : i \in 1..MaxDevices}

\* what list_mfa_devices may return: up to MaxDevices distinct devices, in any order
DeviceLists ==
  UNION {{d \in [1..n -> DeviceArns] : \A i, j \in 1..n : i # j => d[i] # d[j]} :
           n \in 0..MaxDevices}

\* the profiles botocore finds in the credentials file: its sections, DEFAULT aside
Profiles(f) == Names(f) \ {DEFAULTSECT}

\* --------------------------------------------------------------- the state
ArgSet ==
  [cmd : Commands, source_profile : ProfileArgs, target_profile : ProfileArgs,
   mfa_arn : {None, GivenArn}]

\* history only: no snapshot taken yet
NoSnap ==
  [start |-> <<>>, acquire |-> <<>>, save |-> <<>>, startAt |-> 0, readAt |-> 0]

IdleArgs ==
  [cmd |-> "mfa", source_profile |-> "mfa-source", target_profile |-> "default",
   mfa_arn |-> None]

Locals(first) ==
  /\ pc = [p \in Procs |-> IF p \in DOMAIN first THEN first[p] ELSE "idle"]
  /\ mfa_arn = [p \in Procs |-> None]
  /\ session = [p \in Procs |-> None]
  /\ aws_creds = [p \in Procs |-> <<>>]
  /\ session_token = [p \in Procs |-> NoCredential]
  /\ exit_code = [p \in Procs |-> -1]
  /\ hist = [p \in Procs |-> <<>>]
  /\ snap = [p \in Procs |-> NoSnap]
  /\ issued = 0
  /\ runs = 0
  /\ order = <<>>

\* one invocation of mfa or assume, any file, any arguments
Init ==
  /\ file \in InitFiles
  /\ Locals(1 :> "start")
  /\ \E a \in ArgSet : args = [p \in Procs |-> IF p = 1 THEN a ELSE IdleArgs]

Goto(p, l) == pc' = [pc EXCEPT ![p] = l]
\* history only: the event is added to the invocation's record
Log(p, e) == hist' = [hist EXCEPT ![p] = Append(@, e)]

\* an uncaught exception ends the process (traceback, exit status 1)
Raise(p) ==
  /\ pc' = [pc EXCEPT ![p] = "fatal"]
  /\ exit_code' = [exit_code EXCEPT ![p] = 1]

\* lines 53 and 97: if mfa_arn is None
AfterSession(p) == IF mfa_arn[p] = None THEN "auto_detect" ELSE "sts"

\* --------------------------------------------------------------- handlers
Enter(p) ==
  /\ pc[p] = "start"
  /\ Goto(p, "get_session")
  /\ mfa_arn' = [mfa_arn EXCEPT ![p] = args[p].mfa_arn]
  /\ Log(p, "ResolveProfile")
  /\ snap' = [snap EXCEPT ![p].start = file, ![p].startAt = Len(order)]
  /\ UNCHANGED <<file, args, session, aws_creds, session_token,
                 exit_code, issued, runs, order>>

mfa_cli(p) == args[p].cmd = "mfa" /\ Enter(p)

assume_cli(p) == args[p].cmd = "assume" /\ Enter(p)

\* a broad except: every failure of the first open is answered by the copy
get_session_broad(p) ==
  /\ pc[p] = "get_session"
  /\ \/ /\ args[p].source_profile \in Profiles(file)
        /\ session' = [session EXCEPT ![p] = args[p].source_profile]
        /\ Goto(p, AfterSession(p))
        /\ Log(p, "open")
     \/ /\ args[p].source_profile \notin Profiles(file)
        /\ Goto(p, "copy_read")
        /\ Log(p, "ProfileNotFound")
        /\ UNCHANGED session
     \/ /\ Goto(p, "copy_read")
        /\ Log(p, "open_failed")
        /\ UNCHANGED session
  /\ UNCHANGED <<file, args, mfa_arn, aws_creds, session_token, exit_code, issued,
                 runs, snap, order>>

\* boto3.Session(profile_name=source_profile), inside the try
get_session(p) ==
  /\ pc[p] = "get_session"
  /\ \/ /\ args[p].source_profile \in Profiles(file)
        /\ session' = [session EXCEPT ![p] = args[p].source_profile]
        /\ Goto(p, AfterSession(p))
        /\ Log(p, "open")
        /\ UNCHANGED exit_code
     \/ /\ args[p].source_profile \notin Profiles(file)
        /\ Goto(p, "copy_read")
        /\ Log(p, "ProfileNotFound")
        /\ UNCHANGED <<session, exit_code>>
     \/ /\ Raise(p)
        /\ Log(p, "open_failed")
        /\ UNCHANGED session
  /\ UNCHANGED <<file, args, mfa_arn, aws_creds, session_token, issued, runs, snap, order>>

\* copy_profile('default', source_profile): read the file, aws_creds[target] = aws_creds[source]
copy_profile_read(p) ==
  /\ pc[p] = "copy_read"
  /\ LET r == read_ini_file_to_dict(file) IN
     \/ /\ r.err = None /\ "default" \in Names(r.val)
        /\ aws_creds' = [aws_creds EXCEPT ![p] =
             DictSet(r.val, args[p].source_profile, DictGet(r.val, "default"))]
        /\ Goto(p, "copy_write")
        /\ Log(p, "copy")
        /\ UNCHANGED exit_code
     \/ /\ r.err # None \/ "default" \notin Names(r.val)
        /\ Raise(p)
        /\ Log(p, "copy_failed")
        /\ UNCHANGED aws_creds
  /\ UNCHANGED <<file, args, mfa_arn, session, session_token, issued, runs, snap, order>>

\* copy_profile: write_dict_to_ini_file(aws_creds, creds_path)
copy_profile_write(p) ==
  /\ pc[p] = "copy_write"
  /\ LET w == write_dict_to_ini_file(aws_creds[p]) IN
     \/ /\ w.err = None
        /\ file' = w.val
        /\ Goto(p, "reopen")
        /\ Log(p, "write")
        /\ UNCHANGED exit_code
     \/ /\ w.err # None
        /\ Raise(p)
        /\ Log(p, "copy_write_failed")
        /\ UNCHANGED file
  /\ UNCHANGED <<args, mfa_arn, session, aws_creds, session_token, issued, runs, snap, order>>

\* a second ProfileNotFound answered by another copy
get_session_retry_again(p) ==
  /\ pc[p] = "reopen"
  /\ \/ /\ args[p].source_profile \in Profiles(file)
        /\ session' = [session EXCEPT ![p] = args[p].source_profile]
        /\ Goto(p, AfterSession(p))
        /\ Log(p, "reopen")
        /\ UNCHANGED exit_code
     \/ /\ args[p].source_profile \notin Profiles(file)
        /\ Goto(p, "copy_read")
        /\ Log(p, "reopen_not_found")
        /\ UNCHANGED <<session, exit_code>>
     \/ /\ Raise(p)
        /\ Log(p, "reopen_failed")
        /\ UNCHANGED session
  /\ UNCHANGED <<file, args, mfa_arn, aws_creds, session_token, issued, runs, snap, order>>

\* the second boto3.Session(profile_name=source_profile), outside the try
get_session_retry(p) ==
  /\ pc[p] = "reopen"
  /\ \/ /\ args[p].source_profile \in Profiles(file)
        /\ session' = [session EXCEPT ![p] = args[p].source_profile]
        /\ Goto(p, AfterSession(p))
        /\ Log(p, "reopen")
        /\ UNCHANGED exit_code
     \/ /\ args[p].source_profile \notin Profiles(file)
        /\ Raise(p)
        /\ Log(p, "reopen_not_found")
        /\ UNCHANGED session
     \/ /\ Raise(p)
        /\ Log(p, "reopen_failed")
        /\ UNCHANGED session
  /\ UNCHANGED <<file, args, mfa_arn, aws_creds, session_token, issued, runs, snap, order>>

\* the device list answered without the exit on an empty list
DetectNoExit(mfa_devices) ==
  IF Len(mfa_devices) = 0
    THEN [exit |-> FALSE, arn |-> None]
    ELSE [exit |-> FALSE, arn |-> mfa_devices[1]]

\* lines 119 to 128: no device exits with status 1, otherwise the first device
Detect(mfa_devices) ==
  IF Len(mfa_devices) = 0
    THEN [exit |-> TRUE, arn |-> None]
    ELSE [exit |-> FALSE, arn |-> mfa_devices[1]]

auto_detect_mfa_device(p) ==
  /\ pc[p] = "auto_detect"
  /\ Log(p, "AutoDetectDevice")
  /\ \/ \E mfa_devices \in DeviceLists :
          IF Detect(mfa_devices).exit
            THEN /\ pc' = [pc EXCEPT ![p] = "exited"]
                 /\ exit_code' = [exit_code EXCEPT ![p] = 1]
                 /\ UNCHANGED mfa_arn
            ELSE /\ mfa_arn' = [mfa_arn EXCEPT ![p] = Detect(mfa_devices).arn]
                 /\ Goto(p, "sts")
                 /\ UNCHANGED exit_code
     \/ /\ Raise(p)
        /\ UNCHANGED mfa_arn
  /\ UNCHANGED <<file, args, session, aws_creds, session_token, issued, runs, snap, order>>

\* a failed provider call swallowed: the handler goes on to save
AcquireSwallowed(p) ==
  /\ pc[p] = "sts"
  /\ Log(p, "AcquireSession")
  /\ snap' = [snap EXCEPT ![p].acquire = file]
  /\ \/ /\ issued' = issued + 1
        /\ session_token' = [session_token EXCEPT ![p] = TemporaryCredential(issued + 1)]
        /\ Goto(p, "save_read")
     \/ /\ Goto(p, "save_read")
        /\ UNCHANGED <<issued, session_token>>
  /\ UNCHANGED <<file, args, mfa_arn, session, aws_creds, exit_code, runs, order>>

\* session.client('sts') and the provider call of the command
Acquire(p) ==
  /\ pc[p] = "sts"
  /\ Log(p, "AcquireSession")
  /\ snap' = [snap EXCEPT ![p].acquire = file]
  /\ \/ /\ issued' = issued + 1
        /\ session_token' = [session_token EXCEPT ![p] = TemporaryCredential(issued + 1)]
        /\ Goto(p, "save_read")
        /\ UNCHANGED exit_code
     \/ /\ Raise(p)
        /\ UNCHANGED <<issued, session_token>>
  /\ UNCHANGED <<file, args, mfa_arn, session, aws_creds, runs, order>>

sts_get_session_token(p) == args[p].cmd = "mfa" /\ Acquire(p)

sts_assume_role(p) == args[p].cmd = "assume" /\ Acquire(p)

CredentialSection(c) ==
  ("aws_access_key_id" :> c.AccessKeyId)
  @@ ("aws_secret_access_key" :> c.SecretAccessKey)
  @@ ("aws_session_token" :> c.SessionToken)

\* save_session_credentials: read the file, aws_creds.update({target_profile: {...}})
save_session_credentials_read(p) ==
  /\ pc[p] = "save_read"
  /\ Log(p, "PersistCredentials")
  /\ snap' = [snap EXCEPT ![p].save = file, ![p].readAt = Len(order)]
  /\ LET r == read_ini_file_to_dict(file) IN
     \/ /\ r.err = None
        /\ aws_creds' = [aws_creds EXCEPT ![p] =
             DictSet(r.val, args[p].target_profile, CredentialSection(session_token[p]))]
        /\ Goto(p, "save_write")
        /\ UNCHANGED exit_code
     \/ /\ r.err # None
        /\ Raise(p)
        /\ UNCHANGED aws_creds
  /\ UNCHANGED <<file, args, mfa_arn, session, session_token, issued, runs, order>>

\* save_session_credentials: write_dict_to_ini_file(aws_creds, creds_path), then the log line
save_session_credentials_write(p) ==
  /\ pc[p] = "save_write"
  /\ LET w == write_dict_to_ini_file(aws_creds[p]) IN
     \/ /\ w.err = None
        /\ file' = w.val
        /\ pc' = [pc EXCEPT ![p] = "done"]
        /\ exit_code' = [exit_code EXCEPT ![p] = 0]
        /\ Log(p, "write")
        /\ order' = Append(order, p)
     \/ /\ w.err # None
        /\ Raise(p)
        /\ Log(p, "save_failed")
        /\ UNCHANGED <<file, order>>
  /\ UNCHANGED <<args, mfa_arn, session, aws_creds, session_token, issued, runs, snap>>

Step(p) ==
  \/ mfa_cli(p)
  \/ assume_cli(p)
  \/ get_session(p)
  \/ copy_profile_read(p)
  \/ copy_profile_write(p)
  \/ get_session_retry(p)
  \/ auto_detect_mfa_device(p)
  \/ sts_get_session_token(p)
  \/ sts_assume_role(p)
  \/ save_session_credentials_read(p)
  \/ save_session_credentials_write(p)

Next == \E p \in Procs : Step(p)

Spec == Init /\ [][Next]_vars

Terminated(p) == pc[p] \in {"done", "exited", "fatal"}

\* ------------------------------------------------ the same command, run again
\* the process has ended; the same command line is run once more
Restart(p) ==
  /\ Terminated(p)
  /\ runs < MaxRuns
  /\ runs' = runs + 1
  /\ pc' = [pc EXCEPT ![p] = "start"]
  /\ mfa_arn' = [mfa_arn EXCEPT ![p] = None]
  /\ session' = [session EXCEPT ![p] = None]
  /\ aws_creds' = [aws_creds EXCEPT ![p] = <<>>]
  /\ session_token' = [session_token EXCEPT ![p] = NoCredential]
  /\ exit_code' = [exit_code EXCEPT ![p] = -1]
  /\ hist' = [hist EXCEPT ![p] = <<>>]
  /\ snap' = [snap EXCEPT ![p] = NoSnap]
  /\ UNCHANGED <<file, args, issued, order>>

InitRepeat == Init

NextRepeat == \E p \in Procs : Step(p) \/ Restart(p)

SpecRepeat == InitRepeat /\ [][NextRepeat]_vars

\* ------------------------------------------------------ two invocations at once
RaceArgs(p) ==
  {a \in ArgSet : /\ a.source_profile \in {"default", "mfa-source"}
                  /\ a.cmd = (IF p = 1 THEN "mfa" ELSE "assume")
                  /\ a.mfa_arn = (IF p = 1 THEN GivenArn ELSE None)}

InitRace ==
  /\ file \in FilesOfLen(0) \cup FilesOfLen(1)
  /\ Locals((1 :> "start") @@ (2 :> "start"))
  /\ args \in {a \in [Procs -> ArgSet] : \A p \in Procs : a[p] \in RaceArgs(p)}

SpecRace == InitRace /\ [][Next]_vars

\* ---------------------------------------------------------- the codec alone
codec_read(p) ==
  /\ pc[p] = "codec_read"
  /\ snap' = [snap EXCEPT ![p].start = file]
  /\ LET r == read_ini_file_to_dict(file) IN
     \/ /\ r.err = None
        /\ aws_creds' = [aws_creds EXCEPT ![p] = r.val]
        /\ Goto(p, "codec_write")
        /\ UNCHANGED exit_code
     \/ /\ r.err # None
        /\ Raise(p)
        /\ UNCHANGED aws_creds
  /\ UNCHANGED <<file, args, mfa_arn, session, session_token, issued, runs, hist, order>>

codec_write(p) ==
  /\ pc[p] = "codec_write"
  /\ LET w == write_dict_to_ini_file(aws_creds[p]) IN
     \/ /\ w.err = None
        /\ file' = w.val
        /\ Goto(p, "codec_done")
        /\ UNCHANGED exit_code
     \/ /\ w.err # None
        /\ Raise(p)
        /\ UNCHANGED file
  /\ UNCHANGED <<args, mfa_arn, session, aws_creds, session_token, issued, runs, hist,
                 snap, order>>

InitCodec ==
  /\ file \in InitFiles
  /\ Locals(1 :> "codec_read")
  /\ args = [p \in Procs |-> IdleArgs]

NextCodec == \E p \in Procs : codec_read(p) \/ codec_write(p)

SpecCodec == InitCodec /\ [][NextCodec]_vars

\* ================================================================== claims
Kv(f, n) == f[IndexOf(f, n)].kv
Events(p) == {hist[p][i] : i \in 1..Len(hist[p])}
Count(h, e) == Cardinality({i \in 1..Len(h) : h[i] = e})
Last(h) == h[Len(h)]
S1 == args[1].source_profile
T1 == args[1].target_profile

\* the same options and values, the case of the option names aside
SameKv(a, b) == XformKv(a) = XformKv(b)

\* every section but n is in both files, with the same options and values
OthersKept(before, after, n) ==
  /\ Names(before) \ {n} = Names(after) \ {n}
  /\ \A m \in Names(before) \ {n} : SameKv(Kv(before, m), Kv(after, m))

\* the same sections in the same order, each with the same options and values
SameFile(a, b) ==
  /\ Len(a) = Len(b)
  /\ \A i \in 1..Len(a) : a[i].name = b[i].name /\ SameKv(a[i].kv, b[i].kv)

\* C1: after save_session_credentials(credential, P) every section other than P
\* that was in the file before the call is still there with the same keys and
\* values, and no section other than P has been added.
C1_UpsertIsolation ==
  pc[1] = "done" => OthersKept(snap[1].save, file, T1)

\* C2: after save_session_credentials(credential, P) section P holds exactly the
\* three keys aws_access_key_id, aws_secret_access_key, aws_session_token with the
\* credential's AccessKeyId, SecretAccessKey and SessionToken, whatever P held before.
C2_SectionOverwrite ==
  pc[1] = "done" =>
    /\ session_token[1] = TemporaryCredential(issued)
    /\ T1 \in Names(file)
    /\ DOMAIN Kv(file, T1) =
         {"aws_access_key_id", "aws_secret_access_key", "aws_session_token"}
    /\ Kv(file, T1)["aws_access_key_id"] = session_token[1].AccessKeyId
    /\ Kv(file, T1)["aws_secret_access_key"] = session_token[1].SecretAccessKey
    /\ Kv(file, T1)["aws_session_token"] = session_token[1].SessionToken

\* the save has run on a file whose section P held an option that is none of the three
C2_Witness ==
  /\ pc[1] = "done"
  /\ T1 \in Names(snap[1].save)
  /\ "Region" \in DOMAIN Kv(snap[1].save, T1)

\* C3: get_session(S) with no section S and a section default: afterwards the file
\* has a section S with exactly the keys and values of default, every other section
\* (default included) is unchanged, and the second open succeeds (stated of the
\* copies that were written, for an S other than DEFAULT).
C3_FallbackProvisioning ==
  ( /\ "ProfileNotFound" \in Events(1)
    /\ S1 # DEFAULTSECT
    /\ S1 \notin Names(snap[1].start)
    /\ "default" \in Names(snap[1].start) )
  => /\ "reopen_not_found" \notin Events(1)
     /\ pc[1] \in {"auto_detect", "sts"} =>
          /\ S1 \in Names(file)
          /\ SameKv(Kv(file, S1), Kv(snap[1].start, "default"))
          /\ OthersKept(snap[1].start, file, S1)

\* C4 as claimed: with no MFA ARN supplied and no device listed the process exits
\* with status 1 and the file at exit is the file at start.
C4_NoDeviceNoWrite ==
  pc[1] = "exited" => exit_code[1] = 1 /\ file = snap[1].start

\* C4 as amended: with no MFA ARN supplied and no device listed the process exits
\* with status 1 and save_session_credentials never runs; the file at exit is the
\* file at start when the source profile was found, and has otherwise been written
\* exactly once, by copy_profile.
C4_NoDeviceNoSave ==
  ( /\ "AutoDetectDevice" \in Events(1)
    /\ mfa_arn[1] = None
    /\ pc[1] # "fatal" )
  => /\ pc[1] = "exited"
     /\ exit_code[1] = 1
     /\ "AcquireSession" \notin Events(1)
     /\ "PersistCredentials" \notin Events(1)
     /\ IF "ProfileNotFound" \in Events(1)
          THEN Count(hist[1], "write") = 1 /\ "copy" \in Events(1)
          ELSE Count(hist[1], "write") = 0 /\ file = snap[1].start

\* no device was found after the fallback copy had written the file
C4_Witness ==
  /\ pc[1] = "exited"
  /\ args[1].mfa_arn = None
  /\ file # snap[1].start

\* C6 as claimed: the file is written at most once in an invocation, and that
\* write is the invocation's last step.
C6_SingleWrite ==
  /\ Count(hist[1], "write") <= 1
  /\ Count(hist[1], "write") = 1 => Last(hist[1]) = "write" /\ Terminated(1)

WritesIn(h, from, to) == Cardinality({i \in from..to : h[i] = "write"})
PersistAt(h) ==
  IF \E i \in 1..Len(h) : h[i] = "PersistCredentials"
    THEN CHOOSE i \in 1..Len(h) : h[i] = "PersistCredentials"
    ELSE Len(h) + 1

\* C6 as amended: the file is written at most twice in an invocation: at most once
\* by copy_profile inside get_session, and only when the source profile was not
\* found, and at most once by save_session_credentials, whose write is the
\* invocation's last step.
C6_AtMostTwoWrites ==
  LET h == hist[1]
      copyWrites == WritesIn(h, 1, PersistAt(h) - 1)
      saveWrites == WritesIn(h, PersistAt(h), Len(h))
  IN  /\ copyWrites <= 1
      /\ saveWrites <= 1
      /\ copyWrites = 1 =>
           "ProfileNotFound" \in Events(1) /\ S1 \notin Profiles(snap[1].start)
      /\ saveWrites = 1 => Last(h) = "write" /\ pc[1] = "done"
      /\ pc[1] = "done" => saveWrites = 1

\* an invocation that wrote twice: the fallback copy, then the save
C6_Witness ==
  pc[1] = "done" /\ Count(hist[1], "write") = 2

PhaseNames ==
  {"ResolveProfile", "AutoDetectDevice", "AcquireSession", "PersistCredentials"}
Phases(h) == SelectSeq(h, LAMBDA e : e \in PhaseNames)
IsPrefix(a, b) == Len(a) <= Len(b) /\ SubSeq(b, 1, Len(a)) = a

\* C7: the steps of an invocation occur in the order ResolveProfile,
\* AutoDetectDevice (only when no MFA ARN was supplied), AcquireSession,
\* PersistCredentials; when the provider call fails PersistCredentials never runs
\* and the file, section target_profile included, stays as it was when
\* AcquireSession started.
C7_PersistAfterAcquire ==
  LET ph == Phases(hist[1]) IN
  /\ IF args[1].mfa_arn = None
       THEN IsPrefix(ph, <<"ResolveProfile", "AutoDetectDevice", "AcquireSession",
                           "PersistCredentials">>)
       ELSE IsPrefix(ph, <<"ResolveProfile", "AcquireSession", "PersistCredentials">>)
  /\ "PersistCredentials" \in Events(1) => session_token[1] # NoCredential
  /\ (pc[1] = "fatal" /\ Last(hist[1]) = "AcquireSession") => file = snap[1].acquire

\* the provider call failed with a section target_profile in the file
C7_Witness ==
  /\ pc[1] = "fatal"
  /\ Last(hist[1]) = "AcquireSession"
  /\ T1 \in Names(file)

\* C8: get_session copies default and reopens only after the first open failed
\* with ProfileNotFound, and once; any other failure of the first open, a failure
\* of the copy and a failure of the second open end the process without a further
\* retry, and a failure before the copy's write leaves the file unchanged.
C8_ScopedSingleRetry ==
  LET h == hist[1]
      copies == Count(h, "copy") + Count(h, "copy_failed")
      reopens == Count(h, "reopen") + Count(h, "reopen_not_found")
                 + Count(h, "reopen_failed")
  IN  /\ copies <= 1
      /\ reopens <= 1
      /\ Count(h, "open") + Count(h, "ProfileNotFound") + Count(h, "open_failed") <= 1
      /\ copies + reopens > 0 =>
           "ProfileNotFound" \in Events(1) /\ S1 \notin Profiles(snap[1].start)
      /\ "open_failed" \in Events(1) =>
           pc[1] = "fatal" /\ Last(h) = "open_failed" /\ file = snap[1].start
      /\ "copy_failed" \in Events(1) =>
           pc[1] = "fatal" /\ Last(h) = "copy_failed" /\ file = snap[1].start
      /\ "copy_write_failed" \in Events(1) =>
           pc[1] = "fatal" /\ Last(h) = "copy_write_failed" /\ file = snap[1].start
      /\ "reopen_not_found" \in Events(1) =>
           pc[1] = "fatal" /\ Last(h) = "reopen_not_found"
      /\ "reopen_failed" \in Events(1) =>
           pc[1] = "fatal" /\ Last(h) = "reopen_failed"

\* the copy failed because the file has no section default
C8_Witness ==
  /\ pc[1] = "fatal"
  /\ "copy_failed" \in Events(1)
  /\ "default" \notin Names(file)
  /\ file = snap[1].start

\* C5: write_dict_to_ini_file(read_ini_file_to_dict(file)) yields a file with the
\* same sections in the same order, each with the same keys and values (stated of
\* the round trips that run to their end).
C5_RoundTrip ==
  pc[1] = "codec_done" => SameFile(snap[1].start, file)

\* C10: over sequential invocations that all use source profile S and target
\* profile T, S different from T, once section S exists its keys and values never
\* change again (stated for S and T other than DEFAULT).
C10_SourceStable ==
  [][ (S1 # T1 /\ S1 # DEFAULTSECT /\ T1 # DEFAULTSECT /\ S1 \in Names(file))
        => (S1 \in Names(file') /\ SameKv(Kv(file, S1), Kv(file', S1))) ]_vars

Present(p) ==
  /\ args[p].target_profile \in Names(file)
  /\ Kv(file, args[p].target_profile) = CredentialSection(session_token[p])

\* C9: two invocations with different target profiles: when both read before
\* either writes, the first writer's change is lost and the last writer's is in the
\* file; when one runs after the other has ended, both changes are in the file.
C9_LostUpdate ==
  ( /\ pc[1] = "done" /\ pc[2] = "done"
    /\ args[1].target_profile # args[2].target_profile )
  => /\ snap[order[2]].readAt = 0 => ~Present(order[1]) /\ Present(order[2])
     /\ snap[order[2]].startAt = 1 => Present(order[1]) /\ Present(order[2])

====
